---- MODULE Spec2Model ----
(***************************************************************************)
(* Model of the Vexa prejoin API (server.py): the prejoin_submissions      *)
(* table, POST /api/prejoin, GET /api/prejoin, GET /api/prejoin/export.csv *)
(* the detached confirmation mail and POST /api/test-email.                *)
(* Text values are sequences of one-character strings.                     *)
(***************************************************************************)
EXTENDS Integers, Sequences, FiniteSets, TLC

VARIABLES
    store,   \* the committed rows of prejoin_submissions, in the order of their ids
    writer,  \* the request whose connection holds the write lock of prejoin.db, or 0
    now,     \* the clock datetime.utcnow() reads, in ticks
    reqs,    \* the POST /api/prejoin requests received, each with its progress
    lst,     \* the GET /api/prejoin call of the listing client and its answer
    csv,     \* the last answer of GET /api/prejoin/export.csv
    test     \* the last answer of POST /api/test-email

vars == <<store, writer, now, reqs, lst, csv, test>>

(* ------------------------------ bounds --------------------------------- *)
\* POST /api/prejoin requests in one behaviour
MaxReqs == 2
\* ticks of the clock, and ticks in one second
MaxClock == 1
TicksPerSec == 2
\* page and limit of GET /api/prejoin (the code takes page >= 1, limit in 1..100)
MaxPage == 2
MaxLimit == 2
\* rows of a table the queries start from
MaxRows == 2

(* ------------------------------ inputs --------------------------------- *)
NameAda == <<" ", "A", "d", "a">>
NameBlank == <<" ", " ", "a">>
NameShort == <<"a", "b">>
Names == {NameAda, NameBlank, NameShort}

EmailA == <<"a", "@", "x", ".", "i", "o">>
EmailAVariant == <<"A", "@", "x", ".", "i", "o", " ">>
EmailB == <<"b", "@", "x", ".", "i", "o">>
Emails == {EmailA, EmailAVariant, EmailB}

Queries == {<<>>, <<"D">>, <<"a", "_">>}

UserAgent == <<"c", "u", "r", "l">>
ClientHost == <<"h">>

(* ----------------------------- str methods ----------------------------- *)
UpperToLower == ("A" :> "a") @@ ("B" :> "b") @@ ("D" :> "d") @@ ("X" :> "x")

LowerChar(c) == IF c \in DOMAIN UpperToLower THEN UpperToLower[c] ELSE c

\* str.lower()
Lower(s) == [i \in 1..Len(s) |-> LowerChar(s[i])]

IsSpace(c) == c \in {" ", "\t", "\n"}

\* str.strip(): drops leading and trailing whitespace
Strip(s) ==
    LET keep == {i \in 1..Len(s) : ~IsSpace(s[i])}
    IN  IF keep = {} THEN <<>>
        ELSE LET lo == CHOOSE i \in keep : \A j \in keep : i <= j
                 hi == CHOOSE i \in keep : \A j \in keep : j <= i
             IN  SubSeq(s, lo, hi)

(* ------------------------------ created_at ----------------------------- *)
Digits == <<"0", "1", "2", "3", "4", "5", "6", "7", "8", "9">>

DigitChar(n) == Digits[n + 1]

\* datetime.utcnow().isoformat() + "Z": the fraction is printed only when
\* the microsecond field is not zero.  The date and hour prefix is the same for
\* every timestamp of the model and is left out.
IsoFormatZ(t) ==
    LET sec == t \div TicksPerSec
        usec == t % TicksPerSec
    IN  IF usec = 0 THEN <<DigitChar(sec), "Z">>
        ELSE <<DigitChar(sec), ".", DigitChar(usec), "Z">>

CharRank(c) ==
    IF c = "." THEN 0
    ELSE IF c = "Z" THEN 11
    ELSE CHOOSE n \in 1..10 : Digits[n] = c

\* BINARY collation on TEXT: byte-wise, a proper prefix sorts first
RECURSIVE TextLess(_, _)
TextLess(a, b) ==
    IF b = <<>> THEN FALSE
    ELSE IF a = <<>> THEN TRUE
    ELSE IF Head(a) # Head(b) THEN CharRank(Head(a)) < CharRank(Head(b))
    ELSE TextLess(Tail(a), Tail(b))

(* ------------------------- prejoin_submissions ------------------------- *)
\* LIKE of SQLite: % matches any run of characters, _ any one character,
\* letters compare without regard to (ASCII) case
RECURSIVE Like(_, _)
Like(p, s) ==
    IF p = <<>> THEN s = <<>>
    ELSE IF Head(p) = "%" THEN Like(Tail(p), s) \/ (s # <<>> /\ Like(p, Tail(s)))
    ELSE /\ s # <<>>
         /\ Head(p) = "_" \/ LowerChar(Head(p)) = LowerChar(Head(s))
         /\ Like(Tail(p), Tail(s))

\* search = (q or "").strip()
SearchOf(q) == Strip(q)

\* like = f"%{search}%"
LikePattern(search) == <<"%">> \o search \o <<"%">>

\* WHERE full_name LIKE ? OR email LIKE ?   (no WHERE clause for an empty search)
WhereClause(row, search) ==
    \/ search = <<>>
    \/ Like(LikePattern(search), row.full_name)
    \/ Like(LikePattern(search), row.email)

Matching(tbl, search) == {i \in 1..Len(tbl) : WhereClause(tbl[i], search)}

\* the count taken without the WHERE clause
CountAllRows(tbl, search) == Len(tbl)

\* SELECT COUNT(*) ... {where_clause}
CountRows(tbl, search) == Cardinality(Matching(tbl, search))

\* ORDER BY created_at DESC: the key is the only thing the statement orders by,
\* rows with equal keys come in an order the engine is free to choose
OrderByCreatedAtDesc(tbl, search) ==
    LET m == Matching(tbl, search)
        n == Cardinality(m)
    IN  {[i \in 1..n |-> tbl[f[i]]] :
            f \in {g \in [1..n -> m] :
                     /\ \A i, j \in 1..n : i # j => g[i] # g[j]
                     /\ \A i, j \in 1..n :
                          i < j => ~TextLess(tbl[g[i]].created_at, tbl[g[j]].created_at)}}

Min(a, b) == IF a < b THEN a ELSE b

\* LIMIT ? OFFSET ?
LimitOffset(rows, limit, offset) == SubSeq(rows, offset + 1, Min(Len(rows), offset + limit))

\* email TEXT NOT NULL UNIQUE
UniqueViolation(tbl, email) == \E i \in 1..Len(tbl) : tbl[i].email = email

\* id INTEGER PRIMARY KEY AUTOINCREMENT (rows are never deleted)
NextId(tbl) == Len(tbl) + 1

(* --------------------------- POST /api/prejoin ------------------------- *)
NoRow == [id |-> 0, full_name |-> <<>>, email |-> <<>>, consent |-> 0,
          created_at |-> <<>>, user_agent |-> <<>>, ip |-> <<>>]

Request(fn, em, c, pc, status) ==
    [fullName |-> fn, email |-> em, consent |-> c, pc |-> pc, status |-> status,
     conn |-> "none", row |-> NoRow, mail |-> "none"]

\* fullName: constr(min_length=3): the length of the string as received
FullNameOk(fn) == Len(fn) >= 3

\* the consent check left out
ConsentNeverMissing(d) == FALSE

\* if not data.consent
ConsentMissing(d) == ~d.consent

\* the e-mail stored as received but for the surrounding whitespace
InsertParamsNoLower(d, t) ==
    [id |-> 0,
     full_name |-> Strip(d.fullName),
     email |-> Strip(d.email),
     consent |-> IF d.consent THEN 1 ELSE 0,
     created_at |-> IsoFormatZ(t),
     user_agent |-> UserAgent,
     ip |-> ClientHost]

\* the name stored as received
InsertParamsRawName(d, t) ==
    [id |-> 0,
     full_name |-> d.fullName,
     email |-> Strip(Lower(d.email)),
     consent |-> IF d.consent THEN 1 ELSE 0,
     created_at |-> IsoFormatZ(t),
     user_agent |-> UserAgent,
     ip |-> ClientHost]

\* the parameter tuple of the INSERT statement
InsertParams(d, t) ==
    [id |-> 0,
     full_name |-> Strip(d.fullName),
     email |-> Strip(Lower(d.email)),
     consent |-> IF d.consent THEN 1 ELSE 0,
     created_at |-> IsoFormatZ(t),
     user_agent |-> UserAgent,
     ip |-> ClientHost]

\* the body does not validate as a PrejoinPayload: the handler is not called
ValidationError(fn, em, c) ==
    /\ Len(reqs) < MaxReqs
    /\ ~FullNameOk(fn)
    /\ reqs' = Append(reqs, Request(fn, em, c, "done", 422))
    /\ UNCHANGED <<store, writer, now, lst, csv, test>>

\* a validated body reaches create_prejoin
Post(fn, em, c) ==
    /\ Len(reqs) < MaxReqs
    /\ FullNameOk(fn)
    /\ reqs' = Append(reqs, Request(fn, em, c, "handler", 0))
    /\ UNCHANGED <<store, writer, now, lst, csv, test>>

\* raise HTTPException(status_code=400, detail="Consent required")
ConsentRequired(r) ==
    /\ reqs[r].pc = "handler"
    /\ ConsentMissing(reqs[r])
    /\ reqs' = [reqs EXCEPT ![r].pc = "done", ![r].status = 400]
    /\ UNCHANGED <<store, writer, now, lst, csv, test>>

\* conn = get_db(), then the parameters of the INSERT are evaluated
GetDb(r) ==
    /\ reqs[r].pc = "handler"
    /\ ~ConsentMissing(reqs[r])
    /\ reqs' = [reqs EXCEPT ![r].pc = "insert", ![r].conn = "open",
                            ![r].row = InsertParams(reqs[r], now)]
    /\ UNCHANGED <<store, writer, now, lst, csv, test>>

\* conn.execute(INSERT ...) raises sqlite3.IntegrityError; the handler turns it
\* into 409 and the finally clause closes the connection
InsertConflict(r) ==
    /\ reqs[r].pc = "insert"
    /\ writer = 0
    /\ UniqueViolation(store, reqs[r].row.email)
    /\ reqs' = [reqs EXCEPT ![r].pc = "done", ![r].status = 409,
                            ![r].conn = "closed", ![r].row = NoRow]
    /\ UNCHANGED <<store, writer, now, lst, csv, test>>

\* conn.execute(INSERT ...) succeeds: the connection holds the write lock of the
\* database file and the row waits for the commit
InsertRow(r) ==
    /\ reqs[r].pc = "insert"
    /\ writer = 0
    /\ ~UniqueViolation(store, reqs[r].row.email)
    /\ writer' = r
    /\ reqs' = [reqs EXCEPT ![r].pc = "commit", ![r].row.id = NextId(store)]
    /\ UNCHANGED <<store, now, lst, csv, test>>

\* conn.commit(), then conn.close() in the finally clause
Commit(r) ==
    /\ reqs[r].pc = "commit"
    /\ writer = r
    /\ store' = Append(store, reqs[r].row)
    /\ writer' = 0
    /\ reqs' = [reqs EXCEPT ![r].pc = "notify", ![r].conn = "closed"]
    /\ UNCHANGED <<now, lst, csv, test>>

\* threading.Thread(...).start() succeeds; return {"ok": True}
StartThread(r) ==
    /\ reqs[r].pc = "notify"
    /\ reqs' = [reqs EXCEPT ![r].pc = "done", ![r].status = 200, ![r].mail = "running"]
    /\ UNCHANGED <<store, writer, now, lst, csv, test>>

\* the exception of start() not caught: the request ends in a server error
StartThreadRaises(r) ==
    /\ reqs[r].pc = "notify"
    /\ reqs' = [reqs EXCEPT ![r].pc = "done", ![r].status = 500, ![r].mail = "unspawned"]
    /\ UNCHANGED <<store, writer, now, lst, csv, test>>

\* threading.Thread(...).start() raises; except Exception: pass; return {"ok": True}
StartThreadFails(r) ==
    /\ reqs[r].pc = "notify"
    /\ reqs' = [reqs EXCEPT ![r].pc = "done", ![r].status = 200, ![r].mail = "unspawned"]
    /\ UNCHANGED <<store, writer, now, lst, csv, test>>

(* ------------------------- confirmation e-mail ------------------------- *)
\* what can go wrong in one run of _send_confirmation_email
Faults == {"none", "port", "connect", "starttls", "login", "send"}

\* _send_confirmation_email: int(SMTP_PORT) is evaluated outside the try block and
\* its ValueError leaves the function; a failure of starttls() or login() is
\* ignored and the send goes on; a failure of SMTP(...) or send_message() is
\* swallowed by the outer except and the function returns None
SendConfirmationEmail(fault) ==
    IF fault = "port"
    THEN [raised |-> TRUE, delivered |-> FALSE,
          error |-> "invalid literal for int() with base 10"]
    ELSE IF fault \in {"connect", "send"}
    THEN [raised |-> FALSE, delivered |-> FALSE, error |-> ""]
    ELSE [raised |-> FALSE, delivered |-> TRUE, error |-> ""]

\* the daemon thread started by create_prejoin runs the function; an exception
\* that leaves it ends the thread and nothing else
MailThread(r, fault) ==
    /\ reqs[r].mail = "running"
    /\ LET o == SendConfirmationEmail(fault)
       IN  reqs' = [reqs EXCEPT ![r].mail = IF o.raised THEN "crashed"
                                            ELSE IF o.delivered THEN "delivered"
                                            ELSE "failed"]
    /\ UNCHANGED <<store, writer, now, lst, csv, test>>

NoTest == [status |-> 0, detail |-> "", delivered |-> FALSE]

\* POST /api/test-email: 200 when the function returns, 500 with str(e) when an
\* exception leaves it
SendTestEmail(fault) ==
    /\ LET o == SendConfirmationEmail(fault)
       IN  test' = IF o.raised
                   THEN [status |-> 500, detail |-> o.error, delivered |-> o.delivered]
                   ELSE [status |-> 200, detail |-> "", delivered |-> o.delivered]
    /\ UNCHANGED <<store, writer, now, reqs, lst, csv>>

(* --------------------------- GET /api/prejoin -------------------------- *)
\* The client of the listing: one call at a time.  walk, pages, base and stable
\* record, for calls that ask pages 1, 2, ... of one q and one limit in turn,
\* the pages received so far and whether the table was the same at every read.
NoList == [pc |-> "idle", q |-> <<>>, page |-> 1, limit |-> 1, total |-> 0,
           items |-> <<>>, countLen |-> 0, fetchLen |-> 0,
           walk |-> FALSE, pages |-> <<>>, base |-> 0, stable |-> FALSE]

\* offset = (page - 1) * limit
Offset(page, limit) == (page - 1) * limit

\* the request arrives: page >= 1, 1 <= limit <= 100 (the model stops at MaxLimit)
ListPrejoin(q, page, limit) ==
    /\ lst.pc \in {"idle", "done"}
    /\ LET next == /\ lst.pc = "done" /\ lst.walk
                   /\ page = lst.page + 1 /\ q = lst.q /\ limit = lst.limit
       IN  lst' = IF page = 1
                  THEN [NoList EXCEPT !.pc = "count", !.q = q, !.limit = limit,
                                      !.walk = TRUE, !.stable = TRUE]
                  ELSE IF next
                  THEN [lst EXCEPT !.pc = "count", !.page = page, !.total = 0,
                                   !.items = <<>>, !.countLen = 0, !.fetchLen = 0]
                  ELSE [NoList EXCEPT !.pc = "count", !.q = q, !.page = page,
                                      !.limit = limit]
    /\ UNCHANGED <<store, writer, now, reqs, csv, test>>

\* cur = conn.execute(count_sql, params); total = int(cur.fetchone()[0])
ListCount ==
    /\ lst.pc = "count"
    /\ lst' = [lst EXCEPT !.pc = "fetch",
                          !.total = CountRows(store, SearchOf(lst.q)),
                          !.countLen = Len(store),
                          !.base = IF lst.page = 1 THEN Len(store) ELSE lst.base,
                          !.stable = lst.stable /\ (lst.page = 1 \/ Len(store) = lst.base)]
    /\ UNCHANGED <<store, writer, now, reqs, csv, test>>

\* cur = conn.execute(list_sql, [*params, limit, offset]); the response is built
ListFetch ==
    /\ lst.pc = "fetch"
    /\ \E rows \in OrderByCreatedAtDesc(store, SearchOf(lst.q)) :
         LET items == LimitOffset(rows, lst.limit, Offset(lst.page, lst.limit))
         IN  lst' = [lst EXCEPT !.pc = "done",
                                !.items = items,
                                !.fetchLen = Len(store),
                                !.pages = IF lst.walk THEN Append(lst.pages, items) ELSE <<>>,
                                !.stable = lst.stable /\ Len(store) = lst.base]
    /\ UNCHANGED <<store, writer, now, reqs, csv, test>>

(* ---------------------- GET /api/prejoin/export.csv -------------------- *)
CsvHeader == << <<"id">>, <<"full_name">>, <<"email">>, <<"consent">>,
                <<"created_at">>, <<"user_agent">>, <<"ip">> >>

\* csv.writer writes str() of each cell
CsvRecord(row) == << <<DigitChar(row.id)>>, row.full_name, row.email,
                     <<DigitChar(row.consent)>>, row.created_at, row.user_agent, row.ip >>

NoCsv == [q |-> <<>>, len |-> 0, rows |-> <<>>]

ExportPrejoinCsv(q) ==
    /\ \E rows \in OrderByCreatedAtDesc(store, SearchOf(q)) :
         csv' = [q |-> q, len |-> Len(store),
                 rows |-> <<CsvHeader>> \o [i \in 1..Len(rows) |-> CsvRecord(rows[i])]]
    /\ UNCHANGED <<store, writer, now, reqs, lst, test>>

(* ------------------------------- clock --------------------------------- *)
Tick ==
    /\ now < MaxClock
    /\ now' = now + 1
    /\ UNCHANGED <<store, writer, reqs, lst, csv, test>>

(* ---------------------------- specification ---------------------------- *)
\* on_startup: CREATE TABLE IF NOT EXISTS prejoin_submissions, an empty table
Init ==
    /\ store = <<>>
    /\ writer = 0
    /\ now = 0
    /\ reqs = <<>>
    /\ lst = NoList
    /\ csv = NoCsv
    /\ test = NoTest

\* POST /api/prejoin, from the request to the response
Submit ==
    \/ \E fn \in Names, em \in Emails, c \in BOOLEAN : ValidationError(fn, em, c)
    \/ \E fn \in Names, em \in Emails, c \in BOOLEAN : Post(fn, em, c)
    \/ \E r \in 1..Len(reqs) : ConsentRequired(r)
    \/ \E r \in 1..Len(reqs) : GetDb(r)
    \/ \E r \in 1..Len(reqs) : InsertConflict(r)
    \/ \E r \in 1..Len(reqs) : InsertRow(r)
    \/ \E r \in 1..Len(reqs) : Commit(r)
    \/ \E r \in 1..Len(reqs) : StartThread(r)
    \/ \E r \in 1..Len(reqs) : StartThreadFails(r)

Mail ==
    \/ \E r \in 1..Len(reqs), f \in Faults : MailThread(r, f)
    \/ \E f \in Faults : SendTestEmail(f)

List ==
    \/ \E q \in Queries, p \in 1..MaxPage, k \in 1..MaxLimit : ListPrejoin(q, p, k)
    \/ ListCount
    \/ ListFetch

Export == \E q \in Queries : ExportPrejoinCsv(q)

NextIntake == Submit \/ Mail \/ Tick
SpecIntake == Init /\ [][NextIntake]_vars

\* the listing next to submissions that gave their consent
SubmitConsenting ==
    \/ \E fn \in Names, em \in Emails : Post(fn, em, TRUE)
    \/ \E r \in 1..Len(reqs) : GetDb(r)
    \/ \E r \in 1..Len(reqs) : InsertConflict(r)
    \/ \E r \in 1..Len(reqs) : InsertRow(r)
    \/ \E r \in 1..Len(reqs) : Commit(r)
    \/ \E r \in 1..Len(reqs) : StartThread(r)
    \/ \E r \in 1..Len(reqs) : StartThreadFails(r)

NextList == SubmitConsenting \/ List \/ Tick
SpecList == Init /\ [][NextList]_vars

\* The tables the handlers can have built: rows 1..n in the order of their
\* commits, each the parameters of an accepted submission, no e-mail twice.
\* created_at is read before the INSERT waits for the write lock, so the
\* timestamps of successive rows are in no particular order.
TableRows ==
    {InsertParams([fullName |-> fn, email |-> em, consent |-> TRUE], t) :
        fn \in {n \in Names : FullNameOk(n)}, em \in Emails, t \in 0..MaxClock}

Tables ==
    {[i \in 1..Len(tbl) |-> [tbl[i] EXCEPT !.id = i]] :
        tbl \in {t \in UNION {[1..n -> TableRows] : n \in 0..MaxRows} :
                   \A i, j \in 1..Len(t) : i # j => t[i].email # t[j].email}}

\* the queries over a table that stays as it is
InitQuery ==
    /\ store \in Tables
    /\ writer = 0
    /\ now = MaxClock
    /\ reqs = <<>>
    /\ lst = NoList
    /\ csv = NoCsv
    /\ test = NoTest

NextQuery == List \/ Export
SpecQuery == InitQuery /\ [][NextQuery]_vars

Next == Submit \/ Mail \/ List \/ Export \/ Tick
Spec == Init /\ [][Next]_vars

\* every table the handlers build is one of Tables
StoreInTables == Len(store) <= MaxRows => store \in Tables

(* ------------------------------- claims -------------------------------- *)
\* the normalisation the specification names: trim, then lower-case
TrimLower(e) == Lower(Strip(e))

Done(r) == reqs[r].pc = "done"

\* a request the handler was called for, with consent given
Consenting == {r \in 1..Len(reqs) : reqs[r].consent /\ FullNameOk(reqs[r].fullName)}

RowsOf(e) == {i \in 1..Len(store) : store[i].email = e}

\* C1: of the consenting requests whose e-mails normalise to one value, in any
\* interleaving, at most one is answered 200, every answer is 200 or 409, the
\* table never holds two rows for the value, and once all are answered exactly
\* one got 200, the others 409, and the table holds exactly one row for it.
C1_OneWinnerPerEmail ==
    \A v \in {TrimLower(e) : e \in Emails} :
        LET same == {r \in Consenting : TrimLower(reqs[r].email) = v}
            won == {r \in same : reqs[r].status = 200}
        IN  /\ Cardinality(RowsOf(v)) <= 1
            /\ Cardinality(won) <= 1
            /\ \A r \in same : Done(r) => reqs[r].status \in {200, 409}
            /\ (same # {} /\ \A r \in same : Done(r)) =>
                  /\ Cardinality(won) = 1
                  /\ \A r \in same \ won : reqs[r].status = 409
                  /\ Cardinality(RowsOf(v)) = 1

C1_Witness ==
    \E r1, r2 \in Consenting :
        /\ reqs[r1].email # reqs[r2].email
        /\ TrimLower(reqs[r1].email) = TrimLower(reqs[r2].email)
        /\ reqs[r1].status = 200 /\ reqs[r2].status = 409
        /\ Cardinality(RowsOf(TrimLower(reqs[r1].email))) = 1

\* C3: a request without consent that reached the handler is answered 400, has
\* opened no connection and prepared no row, and no stored row comes from it:
\* the table holds only rows of consenting requests that committed.
C3_NoConsentNoPersistence ==
    /\ \A r \in 1..Len(reqs) :
          (~reqs[r].consent /\ FullNameOk(reqs[r].fullName)) =>
              /\ reqs[r].conn = "none"
              /\ reqs[r].row = NoRow
              /\ Done(r) => reqs[r].status = 400
    /\ \A i \in 1..Len(store) :
          \E r \in Consenting : reqs[r].row = store[i] /\ reqs[r].pc \in {"notify", "done"}

C3_Witness ==
    \E r \in 1..Len(reqs) :
        /\ ~reqs[r].consent /\ FullNameOk(reqs[r].fullName)
        /\ Done(r) /\ reqs[r].status = 400
        /\ store # <<>>

\* a request whose INSERT was committed
Committed(r) == reqs[r].pc \in {"notify", "done"} /\ reqs[r].row.id # 0

\* C4: once the INSERT of a request is committed the stored row stays as it was
\* written and the answer is 200, whether the mail thread could not be started,
\* is still running, ended by an exception, failed to deliver or delivered.
C4_MailNeverFailsRequest ==
    \A r \in 1..Len(reqs) :
        Committed(r) =>
            /\ reqs[r].row.id <= Len(store)
            /\ store[reqs[r].row.id] = reqs[r].row
            /\ Done(r) => reqs[r].status = 200

C4_Witness ==
    \E r1, r2 \in 1..Len(reqs) :
        /\ Committed(r1) /\ Done(r1) /\ reqs[r1].status = 200
        /\ reqs[r1].mail = "unspawned"
        /\ Committed(r2) /\ Done(r2) /\ reqs[r2].status = 200
        /\ reqs[r2].mail \in {"failed", "crashed"}

\* C5: POST /api/test-email answers 200 only when the message was delivered, and
\* a delivery that failed is answered 500 with a detail that is not empty.
C5_TestEmailSurfacesFailure ==
    test.status # 0 =>
        /\ test.status = 200 => test.delivered
        /\ ~test.delivered => test.status = 500 /\ test.detail # ""

\* C9: every stored full_name has no surrounding whitespace and at least 3
\* characters.
C9_StoredNameTrimmedMin3 ==
    \A i \in 1..Len(store) :
        /\ Strip(store[i].full_name) = store[i].full_name
        /\ Len(store[i].full_name) >= 3

\* the listing answered, unfiltered, by one page that holds the whole table
FullListing ==
    /\ lst.pc = "done"
    /\ SearchOf(lst.q) = <<>>
    /\ lst.page = 1
    /\ lst.limit >= lst.fetchLen

\* C2: a consenting request is refused only with 409 and only when a row with
\* its normalised e-mail is stored; when it was answered 200, a full unfiltered
\* listing read after its commit holds exactly one record with the trimmed,
\* lower-cased e-mail, and that record carries the trimmed fullName.
C2_AcceptedIsListedOnce ==
    \A r \in Consenting :
        Done(r) =>
            /\ reqs[r].status = 200 \/
                  (reqs[r].status = 409 /\ RowsOf(TrimLower(reqs[r].email)) # {})
            /\ (reqs[r].status = 200 /\ FullListing /\ reqs[r].row.id <= lst.fetchLen) =>
                  LET hits == {i \in 1..Len(lst.items) :
                                  lst.items[i].email = TrimLower(reqs[r].email)}
                  IN  /\ Cardinality(hits) = 1
                      /\ \A i \in hits : lst.items[i].full_name = Strip(reqs[r].fullName)

C2_Witness ==
    \E r \in Consenting :
        /\ Done(r) /\ reqs[r].status = 200
        /\ reqs[r].email = EmailAVariant /\ reqs[r].fullName = NameAda
        /\ FullListing /\ reqs[r].row.id <= lst.fetchLen
        /\ Len(lst.items) = 2

\* the rows among the first n of the table that the search term selects
MatchCount(n, q) ==
    Cardinality({i \in 1..n : WhereClause(store[i], SearchOf(q))})

\* C10 as stated: total is the number of matching rows of the table the items
\* were read from, and the items are never more than total.
C10_TotalCountsItemsState ==
    lst.pc = "done" =>
        /\ lst.total = MatchCount(lst.fetchLen, lst.q)
        /\ Len(lst.items) <= lst.total

\* C10 as amended: total is the number of matching rows of the table the count
\* query read; it is never more than the matching rows of the table the items
\* were read from; and when no INSERT was committed between the two queries the
\* items are never more than total.
C10_TotalCountsCountState ==
    lst.pc = "done" =>
        /\ lst.total = MatchCount(lst.countLen, lst.q)
        /\ lst.total <= MatchCount(lst.fetchLen, lst.q)
        /\ lst.countLen = lst.fetchLen => Len(lst.items) <= lst.total

C10_Witness ==
    /\ lst.pc = "done"
    /\ lst.countLen < lst.fetchLen
    /\ Len(lst.items) > lst.total
    /\ lst.total > 0

(* claims about the queries over a table that stays as it is *)
RECURSIVE Flatten(_)
Flatten(ss) == IF ss = <<>> THEN <<>> ELSE Head(ss) \o Flatten(Tail(ss))

\* the calls so far asked pages 1..page of one q with one limit, the table was
\* the same at every read, and the page just received is the last one
WalkDone ==
    /\ lst.pc = "done" /\ lst.walk /\ lst.stable
    /\ lst.page * lst.limit >= MatchCount(lst.base, lst.q)
    /\ lst.page = 1 \/ Offset(lst.page, lst.limit) < MatchCount(lst.base, lst.q)

\* C6: the pages 1..ceil(N/k) are ceil(N/k) pages, none empty, none longer than
\* k; together they hold each of the N matching rows once, created_at descending.
C6_PagesPartitionRows ==
    (WalkDone /\ MatchCount(lst.base, lst.q) > 0) =>
        LET all == Flatten(lst.pages)
            n == MatchCount(lst.base, lst.q)
        IN  /\ Len(lst.pages) = lst.page
            /\ \A p \in 1..Len(lst.pages) :
                  Len(lst.pages[p]) >= 1 /\ Len(lst.pages[p]) <= lst.limit
            /\ Len(all) = n
            /\ \A i, j \in 1..Len(all) : i # j => all[i].id # all[j].id
            /\ \A i \in 1..lst.base :
                  WhereClause(store[i], SearchOf(lst.q)) =>
                      \E j \in 1..Len(all) : all[j] = store[i]
            /\ \A i, j \in 1..Len(all) :
                  i < j => ~TextLess(all[i].created_at, all[j].created_at)

\* q, taken as it is, occurs in s without regard to case
ContainsLiteral(s, q) ==
    \E k \in 0..(Len(s) - Len(q)) :
        \A j \in 1..Len(q) : LowerChar(s[k + j]) = LowerChar(q[j])

LiteralMatch(row, q) ==
    q = <<>> \/ ContainsLiteral(row.full_name, q) \/ ContainsLiteral(row.email, q)

\* C7: a row is in the export, and in a listing of one page that holds the whole
\* table, exactly when q occurs literally in its full_name or e-mail.
C7_SearchIsLiteralSubstring ==
    /\ csv.rows # <<>> =>
          \A i \in 1..Len(store) :
              (\E j \in 2..Len(csv.rows) : csv.rows[j] = CsvRecord(store[i]))
                  <=> LiteralMatch(store[i], csv.q)
    /\ (lst.pc = "done" /\ lst.page = 1 /\ lst.limit >= Len(store)) =>
          \A i \in 1..Len(store) :
              (\E j \in 1..Len(lst.items) : lst.items[j] = store[i])
                  <=> LiteralMatch(store[i], lst.q)

\* C8: the export is the header row followed by the rows of pages 1..last of the
\* listing for the same q, in the same order, every row of 7 columns.
C8_ExportEqualsPages ==
    (csv.rows # <<>> /\ WalkDone /\ csv.q = lst.q) =>
        LET all == Flatten(lst.pages)
        IN  /\ csv.rows[1] = CsvHeader
            /\ \A j \in 1..Len(csv.rows) : Len(csv.rows[j]) = 7
            /\ Tail(csv.rows) = [i \in 1..Len(all) |-> CsvRecord(all[i])]

====
